---------------------------- MODULE Spec2Model ----------------------------
(***************************************************************************)
(* A model of the blanc-os physical frame allocator                        *)
(* (crate/memory/src/phys.rs), of task identifier assignment               *)
(* (crate/coop/src/lib.rs) and of the executor main.rs runs.               *)
(*                                                                         *)
(* Addresses are byte addresses.  A pointer into the bitmap window is      *)
(* kept as its byte offset from BITMAP_START (0xFFFF_FF00_0000_0000 does   *)
(* not fit TLC's integers, and the code only ever uses the difference).    *)
(* A 64-bit bitmap word is kept as the set of its bit positions that are   *)
(* 1, so that no value exceeds TLC's integer range.                        *)
(***************************************************************************)
EXTENDS Integers, Sequences, FiniteSets, TLC

VARIABLES
    memory_regions,       \* the boot memory map handed to init
    zeroed,               \* whether the bitmap's RAM happened to be all zero at boot
    phase,                \* "boot" | "ready" | "panicked"
    initCalls,            \* number of calls of PhysFrameAllocator::init so far
    FRAME_ALLOCATOR,      \* Once<PhysFrameAllocatorWrapper>
    BYTES_AVAILABLE_RAM,  \* Once<u64>
    pageMap,              \* page index of the bitmap window -> physical frame address
    bitmap,               \* byte offset of a word in the window -> set of 1 bits
    lock,                 \* owner of the spin mutex, or NoOwner
    pc,                   \* each caller's position
    local,                \* each caller's locals during a call
    held,                 \* frames each caller got from allocate_frame and has not freed
    hist,                 \* the latest completed calls that may form a round trip
    freed,                \* whether deallocate_frame has ever completed
    regrant,              \* frames allocate_frame returned while a caller still held them
    nthLast,              \* the allocate_frame_nth call that returned last
    nthGranted,           \* frames allocate_frame_nth returned for a free bit
    NEXT_ID,              \* the AtomicU64 of TaskId::new
    tpc,                  \* each task creator's position
    tid,                  \* the TaskId each creator fetched
    tfloor,               \* largest TaskId of a finished Task::new when the creator's call began
    tasks,                \* the TaskIds of the tasks constructed so far, in order of completion
    exec_tasks,           \* Executor.tasks: the identifiers of the tasks the executor owns
    wake_queue,           \* Executor.wake_queue: identifiers ready to be polled
    waker_cache,          \* Executor.waker_cache: identifiers with a cached waker
    epc,                  \* the run loop's position
    cur,                  \* the task being polled
    interrupts,           \* whether interrupts are enabled
    registered,           \* tasks whose waker an event source holds
    completed,            \* tasks whose poll reported completion
    polls,                \* number of polls of each task
    wakes,                \* number of invocations of each task's waker
    popped,               \* number of identifiers dequeued so far
    idleWakes,            \* enqueues of each task since the latest drain ended
    kStart,               \* enqueues each owned task had got when the latest drain began
    drainPolls,           \* polls of each task in the latest drain
    drainWakes,           \* wakes of each task during the latest drain
    wokenSincePoll,       \* whether the task's waker was invoked since its latest poll began
    staleDropped,         \* identifiers dequeued when their task was gone
    firstDrainDone,       \* whether the first drain has ended
    averted,              \* whether a re-check has found a wake and skipped the halt
    resumed               \* whether a wake has resumed a halted CPU

allocVars == <<memory_regions, zeroed, phase, initCalls, FRAME_ALLOCATOR,
               BYTES_AVAILABLE_RAM, pageMap, bitmap, lock, pc, local, held,
               hist, freed, regrant, nthLast, nthGranted>>
taskVars  == <<NEXT_ID, tpc, tid, tfloor, tasks>>
execVars  == <<exec_tasks, wake_queue, waker_cache, epc, cur, interrupts,
               registered, completed, polls, wakes, popped, idleWakes, kStart,
               drainPolls, drainWakes, wokenSincePoll, staleDropped,
               firstDrainDone, averted, resumed>>
vars      == <<allocVars, taskVars, execVars>>

---------------------------------------------------------------------------
(* Program constants *)

\* Size4KiB::SIZE; the code's "<< 12" and ">> 12"
FrameSize == 4096
\* bits of a u64 bitmap word: "while index < 64", "index % 64"
WordBits == 64
\* bytes between two scanned words: bm_ptr.add(8) on a *mut u64, and "u64_byte << 6"
WordStride == 64
\* tracked bytes per bitmap frame in the sizing rule: ">> 24"
BitmapFrameSpan == 16777216

\* Option::None of a PhysFrame (frames are start addresses, all >= 0)
NoFrame == -1
\* spin::Mutex unlocked
NoOwner == "none"

---------------------------------------------------------------------------
(* Bounds of the model *)

\* small usable regions have 1..MaxRegionFrames frames
MaxRegionFrames == 3
\* allocate_frame is not called while this many frames are held
MaxHeld == 3
\* boot RAM garbage: all ones except for 0..MaxDirtyFree bits at the top of the last word
MaxDirtyFree == 1
\* init is called at most this many times
MaxInitCalls == 2
\* Task::new is called at most this many times
MaxTasks == 4

Callers  == {"c1", "c2"}
Creators == {"t1", "t2", "t3"}

\* the tasks main spawns before executor.run(): two, with the first two TaskIds
NumTasks == 2
TaskIds == 0 .. (NumTasks - 1)
\* invocations of the wakers, all tasks together
MaxWakes == 3

---------------------------------------------------------------------------
(* Memory regions *)

Usable   == "Usable"
Reserved == "Reserved"

\* MemoryRegion::empty()
EmptyRegion == [start |-> 0, end |-> 0]

\* first address of the usable RAM in the modelled maps (1 MiB, frame aligned)
RegionBase == 256 * FrameSize

Region(s, e, k) == [start |-> s, end |-> e, kind |-> k]

\* The boot memory maps tried: frame-aligned regions, as the boot loader reports.
MemoryMaps ==
    { << Region(0, FrameSize, Reserved),
         Region(RegionBase, RegionBase + s * FrameSize, Usable) >>
        : s \in 1..MaxRegionFrames }
    \cup
    { \* exactly 16 MiB of usable RAM: two bitmap frames
      << Region(RegionBase, RegionBase + BitmapFrameSpan, Usable) >>,
      \* two usable regions
      << Region(RegionBase, RegionBase + 2 * FrameSize, Usable),
         Region(RegionBase + 4 * FrameSize, RegionBase + 7 * FrameSize, Usable) >>,
      \* no usable region
      << Region(0, FrameSize, Reserved) >> }

\* PhysAddr::align_down(Size4KiB::SIZE) / PhysFrame::containing_address
AlignDown(addr) == addr - (addr % FrameSize)

---------------------------------------------------------------------------
(* PhysFrameAllocator::init, lines 32-67 *)

\* bits per bitmap frame when every bit of the frame stands for a frame
DenseBitsPerFrame == 8 * FrameSize

\* ceil(bytes / 4096 / 8) bytes, rounded up to whole frames
DenseFrames(r) ==
    LET frames == (r.end - r.start + FrameSize - 1) \div FrameSize
    IN  (frames + DenseBitsPerFrame - 1) \div DenseBitsPerFrame

NumBitMapFramesDense(r) == DenseFrames(r)
\* "((memory_region.end - memory_region.start) >> 24) + 1"
NumBitMapFramesOf(r) == ((r.end - r.start) \div BitmapFrameSpan) + 1

\* "bit_map_region.start = ...; bit_map_region.end = ... - 1"
BitMapRegionOf(r) ==
    [start |-> r.start, end |-> r.start + NumBitMapFramesOf(r) * FrameSize - 1]

UsableStartCarvesNothing(r) == r.start
\* "usable_memory_region.start = memory_region.start + (num_bit_map_frames << 12)"
UsableStartOf(r) == r.start + NumBitMapFramesOf(r) * FrameSize

UsableRegionOf(r) == [start |-> UsableStartOf(r), end |-> r.end]

\* the locals of init before the loop
InitLocals == [num_bit_map_frames |-> 0, bit_map_region |-> EmptyRegion,
               usable_memory_region |-> EmptyRegion]

\* the loop over memory_regions: every usable region overwrites the locals
RECURSIVE ScanRegions(_, _, _)
ScanRegions(regions, i, acc) ==
    IF i > Len(regions) THEN acc
    ELSE IF regions[i].kind = Usable
         THEN ScanRegions(regions, i + 1,
                [num_bit_map_frames   |-> NumBitMapFramesOf(regions[i]),
                 bit_map_region       |-> BitMapRegionOf(regions[i]),
                 usable_memory_region |-> UsableRegionOf(regions[i])])
         ELSE ScanRegions(regions, i + 1, acc)

ComputeRegions(regions) == ScanRegions(regions, 1, InitLocals)

---------------------------------------------------------------------------
(* map_bit_frames, lines 167-212 *)

\* Page::range_inclusive(page of BITMAP_START, page of BITMAP_START + (end - start)).count()
PageCount(bm) == ((bm.end - bm.start) \div FrameSize) + 1

\* (bit_map_region.start..bit_map_region.end).step_by(4096): how many addresses
FrameCount(bm) ==
    IF bm.end <= bm.start THEN 0
    ELSE ((bm.end - bm.start - 1) \div FrameSize) + 1

\* the i-th address of that iterator (i from 0), as a frame
FrameAt(bm, i) == AlignDown(bm.start + i * FrameSize)

\* The loop over page_range from page i on.  pm is the page table's view of the
\* window.  frames.next() failing is Err(FrameAllocationFailed), which init
\* unwraps; map_to on a page that is already mapped is Err(PageAlreadyMapped),
\* which the loop unwraps: both panic.
RECURSIVE MapPages(_, _, _, _)
MapPages(bm, i, count, pm) ==
    IF i >= count THEN [ok |-> TRUE, pageMap |-> pm]
    ELSE IF i >= FrameCount(bm) THEN [ok |-> FALSE, pageMap |-> pm]
    ELSE IF i \in DOMAIN pm THEN [ok |-> FALSE, pageMap |-> pm]
    ELSE MapPages(bm, i + 1, count, pm @@ (i :> FrameAt(bm, i)))

\* assert_eq!(page_range.count() as u64, num_bit_map_frames), then the loop
MapBitFrames(bm, n, pm) ==
    IF PageCount(bm) # n THEN [ok |-> FALSE, pageMap |-> pm]
    ELSE MapPages(bm, 0, PageCount(bm), pm)

---------------------------------------------------------------------------
(* The bitmap *)

AllOnes == 0 .. (WordBits - 1)

\* byte offsets of the words allocate_frame can reach in a window of n frames
WordOffsets(n) == { k * WordStride : k \in 0 .. ((n * FrameSize) \div WordStride) - 1 }

\* The RAM of the future bitmap is never written by init: its content at boot
\* is whatever was left there.  Tried: all zero, and all ones except for the
\* top d bits of the last word.
InitialBitmaps(n) ==
    { [o \in WordOffsets(n) |-> {}] }
    \cup
    { [o \in WordOffsets(n) |->
          IF o = n * FrameSize - WordStride
          THEN 0 .. (WordBits - 1 - d) ELSE AllOnes]
        : d \in 0 .. MaxDirtyFree }

IsZeroed(bm) == \A o \in DOMAIN bm : bm[o] = {}


---------------------------------------------------------------------------
(* Bit operations on a word kept as its set of 1 bits *)

HighestClear(w) == CHOOSE i \in AllOnes \ w : \A j \in AllOnes \ w : i >= j
\* the first index, counting from 0, at which "quadword & 1 == 0" in the inner loop
LowestClear(w) == CHOOSE i \in AllOnes \ w : \A j \in AllOnes \ w : i <= j

SetBitForgotten(w, i) == w
\* "qw_clone | (0x01 << index)"
SetBit(w, i) == w \cup {i}

ClearBitForgotten(w, i) == w
\* "*u64_byte_ptr & !(1 << bit_index)"
ClearBit(w, i) == w \ {i}

\* "*u64_byte_ptr >> bit_index == 1": bit_index is the highest 1 bit of the word
ShiftRightIsOne(w, b) == { i \in w : i >= b } = {b}

AndNotOneShifted(w, b) == w \ {b}
\* "*u64_byte_ptr &= !(0 << bit_index)": and with all ones
AndNotZeroShifted(w, b) == w

---------------------------------------------------------------------------
(* The allocator object behind FRAME_ALLOCATOR *)

Uninitialised == [init |-> FALSE, usable_memory_region |-> EmptyRegion,
                  bit_map_region |-> EmptyRegion]

usable_memory_region == FRAME_ALLOCATOR.usable_memory_region
bit_map_region       == FRAME_ALLOCATOR.bit_map_region

\* frame_from_bit_index, lines 70-73
frame_from_bit_index(index) == AlignDown(usable_memory_region.start + index * FrameSize)

\* "usable_addr >> 12" of a frame-aligned address: the bit index of a frame
BitIndexOf(frameAddr) == (frameAddr - usable_memory_region.start) \div FrameSize
\* "index >> 6" then "<< 6": byte offset of the word of a bit index
WordOffsetOf(index) == (index \div WordBits) * WordStride
BitInWordOffByOne(index) == (index + 1) % WordBits
\* "index % 64"
BitInWordOf(index) == index % WordBits

\* the outer loop's bound: "BITMAP_START + (bit_map_region.end - bit_map_region.start)"
ScanLimit == bit_map_region.end - bit_map_region.start

NotFound == [found |-> FALSE, off |-> 0, index |-> 0, qw |-> {}]

\* the offsets bm_ptr takes in the outer loop: from 0 in steps of WordStride
\* (bm_ptr.add(8)) while below the bound
ScannedOffsets == { k * WordStride : k \in 0 .. ((ScanLimit + WordStride - 1) \div WordStride) - 1 }

\* allocate_frame's two loops, lines 112-138, up to the first 0 bit: the first
\* scanned word that is not all ones, and its lowest 0 bit
ScanBitmap(bm) ==
    LET open == { o \in ScannedOffsets : bm[o] # AllOnes }
    IN  IF open = {} THEN NotFound
        ELSE LET off == CHOOSE o \in open : \A p \in open : o <= p
             IN  [found |-> TRUE, off |-> off, index |-> LowestClear(bm[off]),
                  qw |-> bm[off]]

AllHeld == UNION { held[c] : c \in Callers }

\* whether the bitmap marks the frame at frameAddr allocated
BitIsSet(bm, frameAddr) ==
    /\ WordOffsetOf(BitIndexOf(frameAddr)) \in DOMAIN bm
    /\ BitInWordOf(BitIndexOf(frameAddr)) \in bm[WordOffsetOf(BitIndexOf(frameAddr))]

\* the frames of usable_memory_region
UsableFrames ==
    { usable_memory_region.start + i * FrameSize :
        i \in 0 .. ((usable_memory_region.end - usable_memory_region.start) \div FrameSize) - 1 }

---------------------------------------------------------------------------
(* The spin mutex of PhysFrameAllocatorWrapper *)

CanLockAlways(l) == TRUE
\* Mutex::lock returns once the mutex is unlocked
CanLock(l) == l = NoOwner

Idle == [frame |-> NoFrame, addr |-> 0, scan |-> NotFound, aliased |-> FALSE]

\* The calls recorded in hist: the longest suffix of the completed
\* allocate_frame/deallocate_frame calls that is a prefix of the round trip
\* "allocate x; deallocate x; allocate y".
Alloc(f)   == [op |-> "alloc", frame |-> f]
Dealloc(f) == [op |-> "dealloc", frame |-> f]

Record(h, e) ==
    IF e.op = "alloc"
    THEN IF Len(h) = 2 THEN Append(h, e) ELSE <<e>>
    ELSE IF h # <<>> /\ h[Len(h)] = Alloc(e.frame) THEN <<h[Len(h)], e>> ELSE <<>>

NoNth == [called |-> FALSE, addr |-> 0, wasSet |-> FALSE, aliased |-> FALSE,
          result |-> NoFrame]

---------------------------------------------------------------------------
(* Initial states *)

InitTasks ==
    /\ NEXT_ID = 0
    /\ tpc = [t \in Creators |-> "idle"]
    /\ tid = [t \in Creators |-> 0]
    /\ tfloor = [t \in Creators |-> -1]
    /\ tasks = <<>>

\* Executor::new(), before main spawns anything
InitExec ==
    /\ exec_tasks = {}
    /\ wake_queue = <<>>
    /\ waker_cache = {}
    /\ epc = "setup"
    /\ cur = 0
    /\ interrupts = TRUE
    /\ registered = {}
    /\ completed = {}
    /\ polls = [t \in TaskIds |-> 0]
    /\ wakes = [t \in TaskIds |-> 0]
    /\ popped = 0
    /\ idleWakes = [t \in TaskIds |-> 0]
    /\ kStart = [t \in TaskIds |-> 0]
    /\ drainPolls = [t \in TaskIds |-> 0]
    /\ drainWakes = [t \in TaskIds |-> 0]
    /\ wokenSincePoll = [t \in TaskIds |-> FALSE]
    /\ staleDropped = {}
    /\ firstDrainDone = FALSE
    /\ averted = FALSE
    /\ resumed = FALSE

InitAllocOf(map, bm) ==
    /\ memory_regions = map
    /\ bitmap = bm
    /\ zeroed = IsZeroed(bm)
    /\ phase = "boot"
    /\ initCalls = 0
    /\ FRAME_ALLOCATOR = Uninitialised
    /\ BYTES_AVAILABLE_RAM = [init |-> FALSE, value |-> 0]
    /\ pageMap = <<>>
    /\ lock = NoOwner
    /\ pc = [c \in Callers |-> "idle"]
    /\ local = [c \in Callers |-> Idle]
    /\ held = [c \in Callers |-> {}]
    /\ hist = <<>>
    /\ freed = FALSE
    /\ regrant = {}
    /\ nthLast = NoNth
    /\ nthGranted = {}

InitAlloc ==
    \E map \in MemoryMaps :
      \E bm \in InitialBitmaps(ComputeRegions(map).num_bit_map_frames) :
        InitAllocOf(map, bm)

Init == InitAlloc /\ InitTasks /\ InitExec

---------------------------------------------------------------------------
(* PhysFrameAllocator::init *)

\* One call of init: the regions, map_bit_frames(..).unwrap(), then the two
\* call_once.  A panic halts the kernel (the panic handler never returns).
\* init is called from the boot path (main.rs line 76), between allocator calls.
InitCall ==
    /\ phase # "panicked"
    /\ \A c \in Callers : pc[c] = "idle"
    /\ initCalls < MaxInitCalls
    /\ initCalls' = initCalls + 1
    /\ LET r == ComputeRegions(memory_regions)
           m == MapBitFrames(r.bit_map_region, r.num_bit_map_frames, pageMap)
       IN  /\ pageMap' = m.pageMap
           /\ IF m.ok
              THEN /\ phase' = "ready"
                   /\ FRAME_ALLOCATOR' =
                        IF FRAME_ALLOCATOR.init THEN FRAME_ALLOCATOR
                        ELSE [init |-> TRUE,
                              usable_memory_region |-> r.usable_memory_region,
                              bit_map_region |-> r.bit_map_region]
                   /\ BYTES_AVAILABLE_RAM' =
                        IF BYTES_AVAILABLE_RAM.init THEN BYTES_AVAILABLE_RAM
                        ELSE [init |-> TRUE,
                              value |-> r.usable_memory_region.end
                                          - r.usable_memory_region.start]
              ELSE /\ phase' = "panicked"
                   /\ UNCHANGED <<FRAME_ALLOCATOR, BYTES_AVAILABLE_RAM>>
    /\ UNCHANGED <<memory_regions, zeroed, bitmap, lock, pc, local, held, hist,
                   freed, regrant, nthLast, nthGranted, taskVars, execVars>>

---------------------------------------------------------------------------
(* allocate_frame through the wrapper, lines 227-231 and 111-139 *)

\* self.inner.lock()
AllocLock(c) ==
    /\ phase = "ready" /\ pc[c] = "idle"
    /\ CanLock(lock)
    /\ Cardinality(AllHeld) < MaxHeld
    /\ lock' = c
    /\ pc' = [pc EXCEPT ![c] = "alloc_scan"]
    /\ nthLast' = NoNth
    /\ UNCHANGED <<memory_regions, zeroed, phase, initCalls, FRAME_ALLOCATOR,
                   BYTES_AVAILABLE_RAM, pageMap, bitmap, local, held, hist,
                   freed, regrant, nthGranted, taskVars, execVars>>

\* the scan up to the first 0 bit, or to the end of the bitmap (None)
AllocScan(c) ==
    /\ phase = "ready" /\ pc[c] = "alloc_scan"
    /\ LET s == ScanBitmap(bitmap)
       IN  /\ local' = [local EXCEPT ![c].scan = s]
           /\ pc' = [pc EXCEPT ![c] = IF s.found THEN "alloc_write" ELSE "alloc_ret"]
    /\ UNCHANGED <<memory_regions, zeroed, phase, initCalls, FRAME_ALLOCATOR,
                   BYTES_AVAILABLE_RAM, pageMap, bitmap, lock, held, hist,
                   freed, regrant, nthLast, nthGranted, taskVars, execVars>>

\* "*bm_ptr = qw_clone | (0x01 << index)" and the frame of the bit
AllocWrite(c) ==
    /\ phase = "ready" /\ pc[c] = "alloc_write"
    /\ LET s == local[c].scan
       IN  /\ bitmap' = [bitmap EXCEPT ![s.off] = SetBit(s.qw, s.index)]
           /\ local' = [local EXCEPT ![c].frame = frame_from_bit_index(s.off + s.index)]
    /\ pc' = [pc EXCEPT ![c] = "alloc_ret"]
    /\ UNCHANGED <<memory_regions, zeroed, phase, initCalls, FRAME_ALLOCATOR,
                   BYTES_AVAILABLE_RAM, pageMap, lock, held, hist,
                   freed, regrant, nthLast, nthGranted, taskVars, execVars>>

\* the guard is dropped and the Option returned
AllocReturn(c) ==
    /\ phase = "ready" /\ pc[c] = "alloc_ret"
    /\ lock' = NoOwner
    /\ LET f == local[c].frame
       IN  /\ held' = [held EXCEPT ![c] = IF f = NoFrame THEN @ ELSE @ \cup {f}]
           /\ regrant' = IF f \in AllHeld THEN regrant \cup {f} ELSE regrant
           /\ hist' = Record(hist, Alloc(f))
    /\ pc' = [pc EXCEPT ![c] = "idle"]
    /\ local' = [local EXCEPT ![c] = Idle]
    /\ UNCHANGED <<memory_regions, zeroed, phase, initCalls, FRAME_ALLOCATOR,
                   BYTES_AVAILABLE_RAM, pageMap, bitmap, freed, nthLast,
                   nthGranted, taskVars, execVars>>

---------------------------------------------------------------------------
(* deallocate_frame through the wrapper, lines 235-239 and 151-163 *)

\* The caller gives up a frame it holds (the call's safety contract) and
\* takes the lock.
DeallocLock(c) ==
    /\ phase = "ready" /\ pc[c] = "idle"
    /\ CanLock(lock)
    /\ \E f \in held[c] :
         /\ held' = [held EXCEPT ![c] = @ \ {f}]
         /\ local' = [local EXCEPT ![c].frame = f]
         /\ nthGranted' = nthGranted \ {f}
    /\ lock' = c
    /\ pc' = [pc EXCEPT ![c] = "dealloc_clear"]
    /\ nthLast' = NoNth
    /\ UNCHANGED <<memory_regions, zeroed, phase, initCalls, FRAME_ALLOCATOR,
                   BYTES_AVAILABLE_RAM, pageMap, bitmap, hist, freed, regrant,
                   taskVars, execVars>>

\* "*u64_byte_ptr &= !(1 << bit_index)" at BITMAP_START + (u64_byte << 6)
DeallocClear(c) ==
    /\ phase = "ready" /\ pc[c] = "dealloc_clear"
    /\ LET index == BitIndexOf(local[c].frame)
           off   == WordOffsetOf(index)
       IN  bitmap' = [bitmap EXCEPT ![off] = ClearBit(@, BitInWordOf(index))]
    /\ pc' = [pc EXCEPT ![c] = "dealloc_ret"]
    /\ UNCHANGED <<memory_regions, zeroed, phase, initCalls, FRAME_ALLOCATOR,
                   BYTES_AVAILABLE_RAM, pageMap, lock, local, held, hist,
                   freed, regrant, nthLast, nthGranted, taskVars, execVars>>

DeallocReturn(c) ==
    /\ phase = "ready" /\ pc[c] = "dealloc_ret"
    /\ lock' = NoOwner
    /\ hist' = Record(hist, Dealloc(local[c].frame))
    /\ freed' = TRUE
    /\ pc' = [pc EXCEPT ![c] = "idle"]
    /\ local' = [local EXCEPT ![c] = Idle]
    /\ UNCHANGED <<memory_regions, zeroed, phase, initCalls, FRAME_ALLOCATOR,
                   BYTES_AVAILABLE_RAM, pageMap, bitmap, held, regrant, nthLast,
                   nthGranted, taskVars, execVars>>


---------------------------------------------------------------------------
(* allocate_frame_nth, lines 77-97, called on the locked allocator *)

\* the addresses asked for: the first frames of usable_memory_region, aligned or not
NthAddrs == { usable_memory_region.start + i * FrameSize + d : i \in 0..1, d \in {0, 291} }

\* What "*u64_byte_ptr" reads.  The pointer is bit_map_region.start + offset,
\* a physical address used as a virtual one, not an address of the window at
\* BITMAP_START.  Where physical memory is identity mapped the read aliases
\* the bitmap word; otherwise it reads whatever lies at that virtual address.
ExaminedWords(off, bit) ==
    (IF off \in DOMAIN bitmap THEN {bitmap[off]} ELSE {}) \cup {{}, {bit}, AllOnes}

NthLock(c) ==
    /\ phase = "ready" /\ pc[c] = "idle"
    /\ CanLock(lock)
    /\ \E a \in NthAddrs : local' = [local EXCEPT ![c].addr = a]
    /\ lock' = c
    /\ pc' = [pc EXCEPT ![c] = "nth_test"]
    /\ nthLast' = NoNth
    /\ UNCHANGED <<memory_regions, zeroed, phase, initCalls, FRAME_ALLOCATOR,
                   BYTES_AVAILABLE_RAM, pageMap, bitmap, held, hist, freed,
                   regrant, nthGranted, taskVars, execVars>>

\* the test of the word and, in the Some branch, the write back of the word
\* and-ed with all ones (a write through a pointer that does not alias the
\* bitmap lands outside it)
NthTest(c) ==
    /\ phase = "ready" /\ pc[c] = "nth_test"
    /\ LET start_frame_addr == AlignDown(local[c].addr)
           index     == BitIndexOf(start_frame_addr)
           off       == WordOffsetOf(index)
           bit_index == BitInWordOf(index)
       IN  \E w \in ExaminedWords(off, bit_index) :
             /\ local' = [local EXCEPT
                            ![c].frame = IF ShiftRightIsOne(w, bit_index)
                                         THEN start_frame_addr ELSE NoFrame,
                            ![c].aliased = off \in DOMAIN bitmap /\ w = bitmap[off]]
             /\ bitmap' = IF /\ off \in DOMAIN bitmap /\ w = bitmap[off]
                             /\ ShiftRightIsOne(w, bit_index)
                          THEN [bitmap EXCEPT ![off] = AndNotZeroShifted(w, bit_index)]
                          ELSE bitmap
    /\ pc' = [pc EXCEPT ![c] = "nth_ret"]
    /\ UNCHANGED <<memory_regions, zeroed, phase, initCalls, FRAME_ALLOCATOR,
                   BYTES_AVAILABLE_RAM, pageMap, lock, held, hist, freed,
                   regrant, nthLast, nthGranted, taskVars, execVars>>

\* the read through the physical address faults where nothing is mapped there
NthFault(c) ==
    /\ phase = "ready" /\ pc[c] = "nth_test"
    /\ phase' = "panicked"
    /\ UNCHANGED <<memory_regions, zeroed, initCalls, FRAME_ALLOCATOR,
                   BYTES_AVAILABLE_RAM, pageMap, bitmap, lock, pc, local, held,
                   hist, freed, regrant, nthLast, nthGranted, taskVars, execVars>>

NthReturn(c) ==
    /\ phase = "ready" /\ pc[c] = "nth_ret"
    /\ lock' = NoOwner
    /\ LET f      == AlignDown(local[c].addr)
           wasSet == BitIsSet(bitmap, f)
       IN  /\ nthLast' = [called |-> TRUE, addr |-> local[c].addr,
                          wasSet |-> wasSet, aliased |-> local[c].aliased,
                          result |-> local[c].frame]
           /\ nthGranted' = IF local[c].frame # NoFrame /\ ~wasSet
                            THEN nthGranted \cup {local[c].frame} ELSE nthGranted
    /\ pc' = [pc EXCEPT ![c] = "idle"]
    /\ local' = [local EXCEPT ![c] = Idle]
    /\ UNCHANGED <<memory_regions, zeroed, phase, initCalls, FRAME_ALLOCATOR,
                   BYTES_AVAILABLE_RAM, pageMap, bitmap, held, hist, freed,
                   regrant, taskVars, execVars>>

---------------------------------------------------------------------------
(* The allocator's specification *)

Next ==
    \/ InitCall
    \/ \E c \in Callers :
         \/ AllocLock(c) \/ AllocScan(c) \/ AllocWrite(c) \/ AllocReturn(c)
         \/ DeallocLock(c) \/ DeallocClear(c) \/ DeallocReturn(c)
         \/ NthLock(c) \/ NthTest(c) \/ NthFault(c) \/ NthReturn(c)

Spec == Init /\ [][Next]_vars


---------------------------------------------------------------------------
(* TaskId::new and Task::new, crate/coop/src/lib.rs lines 17-42 *)

FetchAddLost(v) == v
\* the value NEXT_ID.fetch_add(1, Ordering::Relaxed) leaves in NEXT_ID (the
\* wrap at 2^64 lies beyond MaxTasks)
FetchAdd(v) == v + 1

\* the largest TaskId among the tasks already constructed, -1 when there is none
MaxIssued(ts) ==
    IF ts = <<>> THEN 0 - 1
    ELSE CHOOSE m \in { ts[i] : i \in DOMAIN ts } : \A i \in DOMAIN ts : ts[i] <= m

\* a creator enters Task::new
TaskNewCall(t) ==
    /\ tpc[t] = "idle"
    /\ NEXT_ID < MaxTasks
    /\ tpc' = [tpc EXCEPT ![t] = "call"]
    /\ tfloor' = [tfloor EXCEPT ![t] = MaxIssued(tasks)]
    /\ UNCHANGED <<NEXT_ID, tid, tasks, allocVars, execVars>>

\* TaskId::new: one atomic read-modify-write; the old value is the id
TaskIdNew(t) ==
    /\ tpc[t] = "call"
    /\ tid' = [tid EXCEPT ![t] = NEXT_ID]
    /\ NEXT_ID' = FetchAdd(NEXT_ID)
    /\ tpc' = [tpc EXCEPT ![t] = "fetched"]
    /\ UNCHANGED <<tfloor, tasks, allocVars, execVars>>

\* Task { id, future: Box::pin(future) } is returned
TaskNewReturn(t) ==
    /\ tpc[t] = "fetched"
    /\ tasks' = Append(tasks, tid[t])
    /\ tpc' = [tpc EXCEPT ![t] = "idle"]
    /\ UNCHANGED <<NEXT_ID, tid, tfloor, allocVars, execVars>>

TaskInit == InitTasks /\ InitAllocOf(<<>>, <<>>) /\ InitExec

TaskNext == \E t \in Creators : TaskNewCall(t) \/ TaskIdNew(t) \/ TaskNewReturn(t)

TaskSpec == TaskInit /\ [][TaskNext]_vars

---------------------------------------------------------------------------
(* The executor of crate/coop (Executor::new, spawn, run, the task waker), *)
(* as main.rs lines 90-94 uses it.  Its module is declared at              *)
(* crate/coop/src/lib.rs line 8 and its behaviour is the one of the        *)
(* design document, sections 3, 4.2 and 5.                                 *)

\* whether the run loop still owns the task of a dequeued identifier
PresentAssumed(id, ts) == TRUE
StillPresent(id, ts) == id \in ts

\* tasks once the poll of id reported completion
KeepCompleted(ts, id) == ts
RemoveCompleted(ts, id) == ts \ {id}

\* wake_queue once the poll of id reported "not ready"
RequeuePending(q, id) == Append(q, id)
AfterPending(q, id) == q

\* wake_queue once the waker of id was invoked
PushWakeTwice(q, id) == Append(Append(q, id), id)
PushWake(q, id) == Append(q, id)

\* the emptiness re-check made with interrupts disabled
StillEmptyAssumed(q) == TRUE
StillEmpty(q) == q = <<>>

\* the run loop goes (back) to step 1: a drain begins, with the wakes each
\* task got since the drain before
BeginDrain(invoked, ts) ==
    /\ kStart' = [t \in TaskIds |-> IF t \in ts THEN invoked[t] ELSE 0]
    /\ idleWakes' = [t \in TaskIds |-> 0]
    /\ drainPolls' = [t \in TaskIds |-> 0]
    /\ drainWakes' = [t \in TaskIds |-> 0]

DrainGhostsUnchanged == UNCHANGED <<kStart, idleWakes, drainPolls, drainWakes>>

\* executor.spawn(Task::new(..)): insert into tasks, enqueue the identifier
Spawn(t) ==
    /\ epc = "setup"
    /\ t \notin exec_tasks
    /\ \A u \in TaskIds : u < t => u \in exec_tasks
    /\ exec_tasks' = exec_tasks \cup {t}
    /\ wake_queue' = Append(wake_queue, t)
    /\ idleWakes' = [idleWakes EXCEPT ![t] = 1]
    /\ UNCHANGED <<waker_cache, epc, cur, interrupts, registered, completed,
                   polls, wakes, popped, kStart, drainPolls, drainWakes,
                   wokenSincePoll, staleDropped, firstDrainDone, averted,
                   resumed, allocVars, taskVars>>

\* executor.run() is entered once main has spawned its tasks
RunStart ==
    /\ epc = "setup"
    /\ exec_tasks = TaskIds
    /\ epc' = "drain"
    /\ BeginDrain(idleWakes, exec_tasks)
    /\ UNCHANGED <<exec_tasks, wake_queue, waker_cache, cur, interrupts,
                   registered, completed, polls, wakes, popped,
                   wokenSincePoll, staleDropped, firstDrainDone, averted,
                   resumed, allocVars, taskVars>>

\* step 1, one identifier: it is dequeued; if its task is still in tasks the
\* cached waker is obtained or constructed and the poll begins, otherwise the
\* identifier is dropped
DrainPop ==
    /\ epc = "drain"
    /\ wake_queue # <<>>
    /\ LET id == Head(wake_queue) IN
         /\ wake_queue' = Tail(wake_queue)
         /\ popped' = popped + 1
         /\ IF StillPresent(id, exec_tasks)
            THEN /\ epc' = "polling"
                 /\ cur' = id
                 /\ waker_cache' = waker_cache \cup {id}
                 /\ registered' = registered \cup {id}
                 /\ polls' = [polls EXCEPT ![id] = @ + 1]
                 /\ drainPolls' = [drainPolls EXCEPT ![id] = @ + 1]
                 /\ wokenSincePoll' = [wokenSincePoll EXCEPT ![id] = FALSE]
                 /\ UNCHANGED staleDropped
            ELSE /\ staleDropped' = staleDropped \cup {id}
                 /\ UNCHANGED <<epc, cur, waker_cache, registered, polls,
                                drainPolls, wokenSincePoll>>
    /\ UNCHANGED <<exec_tasks, interrupts, completed, wakes, kStart, idleWakes,
                   drainWakes, firstDrainDone, averted, resumed, allocVars,
                   taskVars>>

\* the poll of the task returns: completion removes the task and its cached
\* waker, "not ready" leaves both
PollEnd ==
    /\ epc = "polling"
    /\ \E ready \in BOOLEAN :
         IF ready
         THEN /\ exec_tasks' = RemoveCompleted(exec_tasks, cur)
              /\ waker_cache' = waker_cache \ {cur}
              /\ completed' = completed \cup {cur}
              /\ UNCHANGED wake_queue
         ELSE /\ wake_queue' = AfterPending(wake_queue, cur)
              /\ UNCHANGED <<exec_tasks, waker_cache, completed>>
    /\ epc' = "drain"
    /\ UNCHANGED <<cur, interrupts, registered, polls, wakes, popped,
                   wokenSincePoll, staleDropped, firstDrainDone, averted,
                   resumed, allocVars, taskVars>>
    /\ DrainGhostsUnchanged

\* step 1 ends: the dequeue finds wake_queue empty
DrainEnd ==
    /\ epc = "drain"
    /\ wake_queue = <<>>
    /\ epc' = "idle"
    /\ firstDrainDone' = TRUE
    /\ UNCHANGED <<exec_tasks, wake_queue, waker_cache, cur, interrupts,
                   registered, completed, polls, wakes, popped,
                   wokenSincePoll, staleDropped, averted, resumed, allocVars,
                   taskVars>>
    /\ DrainGhostsUnchanged

\* step 2, the first look at wake_queue after the drain
IdleCheck ==
    /\ epc = "idle"
    /\ IF wake_queue = <<>>
       THEN /\ epc' = "disabling"
            /\ DrainGhostsUnchanged
       ELSE /\ epc' = "drain"
            /\ BeginDrain(idleWakes, exec_tasks)
    /\ UNCHANGED <<exec_tasks, wake_queue, waker_cache, cur, interrupts,
                   registered, completed, polls, wakes, popped,
                   wokenSincePoll, staleDropped, firstDrainDone, averted,
                   resumed, allocVars, taskVars>>

\* step 2, interrupts are disabled
DisableInterrupts ==
    /\ epc = "disabling"
    /\ interrupts' = FALSE
    /\ epc' = "disabled"
    /\ UNCHANGED <<exec_tasks, wake_queue, waker_cache, cur, registered,
                   completed, polls, wakes, popped, wokenSincePoll,
                   staleDropped, firstDrainDone, averted, resumed, allocVars,
                   taskVars>>
    /\ DrainGhostsUnchanged

\* step 2, the re-check with interrupts disabled: still empty, the CPU halts
\* until the next interrupt (interrupts are deliverable to the halted core);
\* otherwise interrupts are enabled again and the loop repeats from step 1
Recheck ==
    /\ epc = "disabled"
    /\ interrupts' = TRUE
    /\ IF StillEmpty(wake_queue)
       THEN /\ epc' = "halted"
            /\ DrainGhostsUnchanged
            /\ UNCHANGED averted
       ELSE /\ epc' = "drain"
            /\ BeginDrain(idleWakes, exec_tasks)
            /\ averted' = TRUE
    /\ UNCHANGED <<exec_tasks, wake_queue, waker_cache, cur, registered,
                   completed, polls, wakes, popped, wokenSincePoll,
                   staleDropped, firstDrainDone, resumed, allocVars, taskVars>>

\* the invocations of the wakers of the tasks ts so far
RECURSIVE Invocations(_)
Invocations(ts) ==
    IF ts = {} THEN 0
    ELSE LET t == CHOOSE u \in ts : TRUE
         IN  wakes[t] + Invocations(ts \ {t})

\* an interrupt handler invokes the waker handed out for task t: the
\* identifier is pushed onto wake_queue; a halted CPU resumes and the loop
\* repeats from step 1
Wake(t) ==
    /\ interrupts
    /\ t \in registered
    /\ Invocations(TaskIds) < MaxWakes
    /\ wake_queue' = PushWake(wake_queue, t)
    /\ wakes' = [wakes EXCEPT ![t] = @ + 1]
    /\ wokenSincePoll' = [wokenSincePoll EXCEPT ![t] = TRUE]
    /\ IF epc = "halted"
       THEN /\ epc' = "drain"
            /\ resumed' = TRUE
            /\ BeginDrain([idleWakes EXCEPT ![t] = @ + 1], exec_tasks)
       ELSE /\ UNCHANGED <<epc, resumed, kStart, drainPolls>>
            /\ IF epc \in {"drain", "polling"}
               THEN /\ drainWakes' = [drainWakes EXCEPT ![t] = @ + 1]
                    /\ UNCHANGED idleWakes
               ELSE /\ idleWakes' = [idleWakes EXCEPT ![t] = @ + 1]
                    /\ UNCHANGED drainWakes
    /\ UNCHANGED <<exec_tasks, waker_cache, cur, interrupts, registered,
                   completed, polls, popped, staleDropped, firstDrainDone,
                   averted, allocVars, taskVars>>

\* an interrupt that wakes no task (the timer) resumes a halted CPU
OtherInterrupt ==
    /\ epc = "halted"
    /\ epc' = "drain"
    /\ BeginDrain(idleWakes, exec_tasks)
    /\ UNCHANGED <<exec_tasks, wake_queue, waker_cache, cur, interrupts,
                   registered, completed, polls, wakes, popped,
                   wokenSincePoll, staleDropped, firstDrainDone, averted,
                   resumed, allocVars, taskVars>>

ExecInit == InitExec /\ InitTasks /\ InitAllocOf(<<>>, <<>>)

\* the steps of the one thread of control that drives the run loop
RunLoop ==
    \/ \E t \in TaskIds : Spawn(t)
    \/ RunStart
    \/ DrainPop
    \/ PollEnd
    \/ DrainEnd
    \/ IdleCheck
    \/ DisableInterrupts
    \/ Recheck

ExecNext ==
    \/ RunLoop
    \/ \E t \in TaskIds : Wake(t)
    \/ OtherInterrupt

ExecSpec == ExecInit /\ [][ExecNext]_vars

\* the CPU keeps executing the run loop's instructions and every poll returns
ExecFairSpec == ExecSpec /\ WF_vars(RunLoop)



---------------------------------------------------------------------------
(* Properties *)

LastCall == hist[Len(hist)]

\* C1: allocate_frame returning x, then deallocate_frame(x), then
\* allocate_frame, with no other allocation or deallocation in between:
\* the second allocation returns x again.
C1_RoundTrip ==
    Len(hist) = 3 => hist[3].frame = hist[1].frame

\* a round trip completed while other frames were held
C1_Witness ==
    /\ Len(hist) = 3
    /\ hist[1].frame # NoFrame /\ hist[2] = Dealloc(hist[1].frame)
    /\ hist[3].op = "alloc"
    /\ Cardinality(AllHeld) >= 2

\* C2: allocate_frame never returns a frame that some caller got from
\* allocate_frame earlier and has not passed to deallocate_frame since; so two
\* successful calls in a row return different frames.
C2_NoFrameTwice ==
    regrant = {}

\* an allocation succeeded after a deallocation, with another frame still held
C2_Witness ==
    /\ freed
    /\ hist # <<>> /\ LastCall.op = "alloc" /\ LastCall.frame # NoFrame
    /\ Cardinality(AllHeld) >= 2

\* C3: the bitmap was all free at init, no frame was ever freed, and every
\* frame of a non-empty usable_memory_region was already allocated when the
\* last allocate_frame call was made: that call returned None.
C3_Exhaustion ==
    ( /\ zeroed /\ ~freed
      /\ hist # <<>> /\ LastCall.op = "alloc"
      /\ UsableFrames # {}
      /\ UsableFrames \subseteq (AllHeld \ {LastCall.frame}) )
    => LastCall.frame = NoFrame

\* C4: every frame allocate_frame returned lies inside usable_memory_region:
\* it starts at or after usable_memory_region.start and below
\* usable_memory_region.end (here for a usable_memory_region of at least one
\* frame, after a boot that found the bitmap's RAM all zero, so that every bit
\* stands for a free frame).
C4_FramesInsideUsable ==
    (zeroed /\ UsableFrames # {}) =>
        \A f \in AllHeld :
            usable_memory_region.start <= f /\ f < usable_memory_region.end

\* C5: allocate_frame_nth on an address whose frame the bitmap marks
\* allocated returns None, whatever the other bits of the word (here for the
\* calls that did read the bitmap word).
C5_NthAllocatedFails ==
    (nthLast.called /\ nthLast.aliased /\ nthLast.wasSet)
        => nthLast.result = NoFrame

\* C6: allocate_frame_nth on an address whose frame is free returns the frame
\* containing the address (here for the calls that did read the bitmap word),
\* and allocate_frame returns no frame so granted before it is deallocated.
C6_NthFreeGrants ==
    /\ (nthLast.called /\ nthLast.aliased /\ ~nthLast.wasSet)
           => nthLast.result = AlignDown(nthLast.addr)
    /\ AllHeld \cap nthGranted = {}

\* C7: a call of init after one that succeeded completes without a panic and
\* leaves the singleton, BYTES_AVAILABLE_RAM, the bitmap and the page mappings
\* as they were.
C7_SecondInitNoOp ==
    [][ (phase = "ready" /\ initCalls' = initCalls + 1)
          => ( /\ phase' = "ready"
               /\ UNCHANGED <<FRAME_ALLOCATOR, BYTES_AVAILABLE_RAM, bitmap, pageMap>> )
      ]_vars

\* C8: a caller inside allocate_frame, deallocate_frame or allocate_frame_nth
\* owns the mutex from before its first access of the bitmap until it
\* returns; the mutex is free when no call is in progress; and no frame is
\* held by two callers or handed out while held.
C8_MutexSerialises ==
    /\ \A c \in Callers : pc[c] # "idle" => lock = c
    /\ (\A c \in Callers : pc[c] = "idle") => lock = NoOwner
    /\ \A c1, c2 \in Callers : c1 # c2 => held[c1] \cap held[c2] = {}
    /\ regrant = {}

\* one caller is about to set a bit while both callers hold frames and a frame
\* has been freed before
C8_Witness ==
    /\ \A c \in Callers : held[c] # {}
    /\ freed
    /\ \E c \in Callers : pc[c] = "alloc_write"

\* C9: once init has installed the allocator, bit_map_region ends before
\* usable_memory_region starts, the two do not overlap, and every frame
\* allocate_frame returned starts after the end of bit_map_region.
C9_BitmapNotAllocatable ==
    FRAME_ALLOCATOR.init =>
        /\ bit_map_region.start <= bit_map_region.end
        /\ bit_map_region.end < usable_memory_region.start
        /\ usable_memory_region.start <= usable_memory_region.end
        /\ \A f \in AllHeld : bit_map_region.end < f

\* frames were allocated from a region whose bitmap spans more than one frame
C9_Witness ==
    /\ FRAME_ALLOCATOR.init
    /\ bit_map_region.end - bit_map_region.start > FrameSize
    /\ Cardinality(AllHeld) >= 2

\* the TaskIds fetched by creators that have not returned yet
InFlight == { tid[t] : t \in { u \in Creators : tpc[u] = "fetched" } }

\* C10: the TaskIds of any two Task::new calls differ, and a call that began
\* after another call returned gets a strictly greater TaskId.
C10_TaskIdsUnique ==
    /\ \A i, j \in DOMAIN tasks : i # j => tasks[i] # tasks[j]
    /\ \A i \in DOMAIN tasks : tasks[i] \notin InFlight
    /\ \A t, u \in Creators :
         (t # u /\ tpc[t] = "fetched" /\ tpc[u] = "fetched") => tid[t] # tid[u]
    /\ \A t \in Creators : tpc[t] = "fetched" => tid[t] > tfloor[t]

\* two concurrent creators returned in the opposite order of their fetches
\* while a third holds a fetched id
C10_Witness ==
    /\ \E i, j \in DOMAIN tasks : i < j /\ tasks[i] > tasks[j]
    /\ \E t \in Creators : tpc[t] = "fetched" /\ tfloor[t] >= 0


---------------------------------------------------------------------------
(* Properties of the bitmap operations *)

\* the number of bits allocate_frame scans
NumBits == Cardinality(ScannedOffsets) * WordBits

\* bit i of the bitmap, counting words from the mapped base and bits from the
\* low end of each word
BitAt(bm, i) == (i % WordBits) \in bm[(i \div WordBits) * WordStride]

BitSetIn(bm, i) ==
    [bm EXCEPT ![(i \div WordBits) * WordStride] = @ \cup {i % WordBits}]

BitClearedIn(bm, i) ==
    [bm EXCEPT ![(i \div WordBits) * WordStride] = @ \ {i % WordBits}]

\* C16: allocate_frame returns the frame of the lowest bit index that is 0,
\* sets exactly that bit and leaves every other bit as it was; when it returns
\* None every bit is 1 and the bitmap is unchanged.
C16_LowestFreeBit ==
    [][ \A c \in Callers :
          /\ (pc[c] = "alloc_write" /\ pc'[c] = "alloc_ret") =>
               LET f == local'[c].frame
                   i == (f - usable_memory_region.start) \div FrameSize
               IN  /\ f = usable_memory_region.start + i * FrameSize
                   /\ i \in 0 .. (NumBits - 1)
                   /\ ~BitAt(bitmap, i)
                   /\ \A j \in 0 .. (i - 1) : BitAt(bitmap, j)
                   /\ bitmap' = BitSetIn(bitmap, i)
          /\ (pc[c] = "alloc_scan" /\ pc'[c] = "alloc_ret") =>
               /\ local'[c].frame = NoFrame
               /\ bitmap' = bitmap
               /\ \A j \in 0 .. (NumBits - 1) : BitAt(bitmap, j)
      ]_vars

\* allocate_frame has just taken a freed bit below a frame that is still held
C16_Witness ==
    \E c \in Callers :
      /\ pc[c] = "alloc_ret" /\ local[c].frame # NoFrame
      /\ freed
      /\ \E f \in AllHeld : f > local[c].frame

\* C17: deallocate_frame(frame) clears the bit with index
\* (frame address - usable_memory_region.start) / 4096, which is the bit
\* allocate_frame set for that frame, and leaves every other bit as it was.
C17_DeallocClearsItsBit ==
    [][ \A c \in Callers :
          (pc[c] = "dealloc_clear" /\ pc'[c] = "dealloc_ret") =>
            LET f == local[c].frame
                i == (f - usable_memory_region.start) \div FrameSize
            IN  /\ frame_from_bit_index(i) = f
                /\ BitAt(bitmap, i)
                /\ ~BitAt(bitmap', i)
                /\ bitmap' = BitClearedIn(bitmap, i)
      ]_vars

\* a frame has just been cleared while other frames stay held
C17_Witness ==
    \E c \in Callers : pc[c] = "dealloc_ret" /\ Cardinality(AllHeld) >= 2

\* the usable region init worked on: the last usable one of the map
GivenRegion ==
    LET us == { i \in DOMAIN memory_regions : memory_regions[i].kind = Usable }
    IN  memory_regions[CHOOSE i \in us : \A j \in us : j <= i]

\* bit_map_region spans exactly ((end - start) >> 24) + 1 frames at the front
\* of the region, and usable_memory_region is the rest
CarvedFromFront ==
    /\ bit_map_region.start = GivenRegion.start
    /\ bit_map_region.end + 1 - bit_map_region.start
         = (((GivenRegion.end - GivenRegion.start) \div BitmapFrameSpan) + 1) * FrameSize
    /\ usable_memory_region.start = bit_map_region.end + 1
    /\ usable_memory_region.end = GivenRegion.end

BitMapFrames == (bit_map_region.end + 1 - bit_map_region.start) \div FrameSize

\* C18 as stated: bit_map_region spans ((end - start) >> 24) + 1 frames at the
\* front of the region and that equals ceil(bytes / 4096 / 8) bytes rounded up
\* to whole frames.
C18_SizingEqualsDense ==
    FRAME_ALLOCATOR.init =>
        (CarvedFromFront /\ BitMapFrames = DenseFrames(GivenRegion))

\* C18 (amended): bit_map_region spans ((end - start) >> 24) + 1 frames at the
\* front of the region, which is at least ceil(bytes / 4096 / 8) bytes rounded
\* up to whole frames.
C18_SizingAtLeastDense ==
    FRAME_ALLOCATOR.init =>
        (CarvedFromFront /\ BitMapFrames >= DenseFrames(GivenRegion))

\* init has sized the bitmap of a region of 16 MiB
C18_Witness ==
    /\ FRAME_ALLOCATOR.init
    /\ GivenRegion.end - GivenRegion.start >= BitmapFrameSpan

\* C19: no step of allocate_frame_nth changes the bitmap, the branch that
\* returns Some(frame) included.
C19_NthLeavesBitmap ==
    [][ \A c \in Callers :
          (pc[c] \in {"nth_test", "nth_ret"} /\ pc'[c] # pc[c]) => bitmap' = bitmap
      ]_vars

\* allocate_frame_nth returned Some after reading the bitmap's own word
C19_Witness ==
    nthLast.called /\ nthLast.aliased /\ nthLast.result # NoFrame

\* C20: in the first call of init, whatever the memory map, the page count
\* asserted in map_bit_frames equals num_bit_map_frames, init completes, and
\* page i of the window is mapped to frame i of bit_map_region.
C20_MapAssertionHolds ==
    [][ (phase = "boot" /\ initCalls' = initCalls + 1) =>
          LET r == ComputeRegions(memory_regions)
          IN  /\ PageCount(r.bit_map_region) = r.num_bit_map_frames
              /\ phase' = "ready"
              /\ pageMap' = [i \in 0 .. (r.num_bit_map_frames - 1) |->
                               r.bit_map_region.start + i * FrameSize]
      ]_vars

---------------------------------------------------------------------------
(* Properties of the executor *)

\* the run loop is past step 1: the latest drain has ended
AfterDrain == epc \in {"idle", "disabling", "disabled", "halted"}

\* identifiers pushed onto wake_queue so far
Pushed == popped + Len(wake_queue)

InQueue(t) == \E i \in DOMAIN wake_queue : wake_queue[i] = t

\* C11: the CPU is never halted while wake_queue holds an identifier: a
\* re-check that finds an identifier does not halt, a wake after the halt
\* resumes the loop, and every identifier pushed onto wake_queue is
\* eventually dequeued.
C11_NoLostWake ==
    /\ [](epc = "halted" => wake_queue = <<>>)
    /\ [][(epc = "disabled" /\ wake_queue # <<>>) => epc' = "drain"]_vars
    /\ [][(epc = "halted" /\ wake_queue' # <<>>) => epc' = "drain"]_vars
    /\ \A n \in 1 .. (NumTasks + MaxWakes) : (Pushed >= n) ~> (popped >= n)

\* a wake arrived between the idle check and the re-check and averted the
\* halt, another one resumed the halted CPU, and all of them were dequeued
C11_Witness ==
    /\ averted /\ resumed
    /\ epc = "halted" /\ popped >= NumTasks + 2

\* C12: the run loop dequeuing an identifier whose task is no longer in
\* tasks drops it: no task is polled, the loop goes on with the drain, and
\* tasks and waker_cache are unchanged.
C12_StaleWakeDropped ==
    [][(/\ wake_queue # <<>>
        /\ wake_queue' = Tail(wake_queue)
        /\ Head(wake_queue) \notin exec_tasks)
       => /\ exec_tasks' = exec_tasks
          /\ waker_cache' = waker_cache
          /\ polls' = polls
          /\ epc' = "drain"]_vars

\* the identifier of a completed task, woken after it completed, was dropped
C12_Witness ==
    \E t \in staleDropped : t \in completed /\ t \notin exec_tasks /\ wakes[t] >= 1

\* C13 as stated: a suspended task whose waker was invoked k >= 1 times
\* before a drain (and not during it) is polled exactly once by that drain.
C13_ExactlyOneRepoll ==
    \A t \in TaskIds :
        (/\ AfterDrain
         /\ polls[t] > drainPolls[t]
         /\ kStart[t] >= 1
         /\ drainWakes[t] = 0)
        => drainPolls[t] = 1

\* C13: a suspended task whose waker was invoked k >= 1 times before a drain
\* is polled at least once by that drain, and at most once per identifier
\* enqueued for it: k times plus the wakes that arrive during the drain.
C13_OncePerEnqueue ==
    \A t \in TaskIds :
        /\ drainPolls[t] <= kStart[t] + drainWakes[t]
        /\ (AfterDrain /\ kStart[t] >= 1) => drainPolls[t] >= 1

\* a suspended task woken twice before a drain, polled twice by it
C13_Witness ==
    \E t \in TaskIds :
        /\ AfterDrain
        /\ polls[t] > drainPolls[t]
        /\ kStart[t] = 2 /\ drainWakes[t] = 0
        /\ drainPolls[t] = 2

\* C14 as stated: a task that was polled before is polled again only if its
\* waker was invoked after its latest poll began.
C14_RepollOnlyAfterWake ==
    [][\A t \in TaskIds :
          (polls[t] >= 1 /\ polls'[t] > polls[t]) => wokenSincePoll[t]]_vars

\* C14: a task is polled again only for an identifier its waker pushed, one
\* poll per invocation at most; a task in tasks that has no identifier in
\* wake_queue and gets no wake stays unpolled and in tasks.
C14_RepollOnlyForWake ==
    /\ [](\A t \in TaskIds : polls[t] <= 1 + wakes[t])
    /\ [][\A t \in TaskIds :
            (/\ t \in exec_tasks
             /\ ~InQueue(t)
             /\ ~(epc = "polling" /\ cur = t)
             /\ wakes'[t] = wakes[t])
            => (polls'[t] = polls[t] /\ t \in exec_tasks')]_vars

\* a whole later drain went by, run for another task, and left a suspended
\* task that got no wake unpolled
C14_Witness ==
    \E t \in exec_tasks :
        /\ AfterDrain
        /\ polls[t] = 1 /\ wakes[t] = 0
        /\ drainPolls[t] = 0
        /\ \E u \in TaskIds \ {t} : drainPolls[u] >= 1

\* C15: a task whose poll reported completion is out of tasks and of
\* waker_cache from that step on, is never polled or inserted again, and
\* once the first drain has ended every spawned task has been polled and
\* the ones that completed are gone.
C15_CompletedIsFinal ==
    /\ [](/\ completed \cap exec_tasks = {}
          /\ completed \cap waker_cache = {}
          /\ firstDrainDone =>
                \A t \in TaskIds : polls[t] >= 1 /\ (t \in completed \/ t \in exec_tasks))
    /\ [][\A t \in completed :
            /\ polls'[t] = polls[t]
            /\ t \in completed'
            /\ t \notin exec_tasks']_vars

\* a task completed on its first poll, was woken afterwards, and the wake
\* was dropped without a poll
C15_Witness ==
    \E t \in completed :
        /\ firstDrainDone
        /\ polls[t] = 1
        /\ wakes[t] >= 1
        /\ t \in staleDropped
        /\ ~InQueue(t)

=============================================================================
